---- MODULE Spec2Model ----
(***************************************************************************)
(* Model of the execution core of saba (saba_core/src/renderer):           *)
(*   js/token.rs    JsLexer                                                *)
(*   js/runtime.rs  RuntimeValue, Environment, JsRuntime                   *)
(*   dom/node.rs    Node, NodeKind, Element                                *)
(*                                                                         *)
(* Unsigned 64-bit integers are kept at their full width: a u64 is a       *)
(* little-endian sequence of four 16-bit limbs, so that every intermediate *)
(* product stays inside the model checker's integers.                      *)
(***************************************************************************)
EXTENDS Integers, Sequences, FiniteSets, TLC

VARIABLES
    overflowChecks, \* build profile: TRUE = arithmetic overflow panics
    input,          \* JsLexer.input
    pos,            \* JsLexer.pos
    token,          \* what the last call of JsLexer::next returned
    lexPanic,       \* "" or the reason JsLexer::next aborted
    envs,           \* the Environments alive; envs[1] is JsRuntime.env
    functions,      \* JsRuntime.functions
    nodes,          \* the DOM nodes; nodes[1] is JsRuntime.dom_root
    returned,       \* what the last call of eval by execute returned
    panic,          \* "" or the reason the program aborted
    last,           \* the statement execute evaluated last
    ops,            \* the Environment operations of that statement
    steps,          \* number of statements evaluated so far
    lhsElement,     \* the left Element of a comparison
    rhsElement,     \* the right Element of a comparison
    equal           \* what the comparisons of the two returned

lexVars == <<input, pos, token, lexPanic>>
rtVars == <<envs, functions, nodes, returned, panic, last, ops, steps>>
eqVars == <<lhsElement, rhsElement, equal>>
vars == <<overflowChecks, input, pos, token, lexPanic,
          envs, functions, nodes, returned, panic, last, ops, steps,
          lhsElement, rhsElement, equal>>

(***************************************************************************)
(* u64                                                                     *)
(***************************************************************************)
U64Bits == 64
LimbBase == 2^16
NumLimbs == U64Bits \div 16

U64Zero == [i \in 1..NumLimbs |-> 0]
U64Max == [i \in 1..NumLimbs |-> LimbBase - 1]

\* A small natural number as a u64.
U64(n) == [i \in 1..NumLimbs |-> IF i = 1 THEN n ELSE 0]

RECURSIVE MulAddLimbs(_, _, _, _)
\* limbs i.. of n*m + carry, and the carry out of the top limb
MulAddLimbs(n, m, carry, i) ==
    IF i > NumLimbs THEN [limbs |-> <<>>, carry |-> carry]
    ELSE LET t == n[i] * m + carry
             rest == MulAddLimbs(n, m, t \div LimbBase, i + 1)
         IN  [limbs |-> <<t % LimbBase>> \o rest.limbs, carry |-> rest.carry]

\* n * m + d for small m and d: the wrapped value, and whether it overflowed.
U64MulAdd(n, m, d) ==
    LET r == MulAddLimbs(n, m, d, 1)
    IN  [v |-> r.limbs, overflow |-> r.carry > 0]

RECURSIVE AddLimbs(_, _, _, _)
AddLimbs(a, b, carry, i) ==
    IF i > NumLimbs THEN [limbs |-> <<>>, carry |-> carry]
    ELSE LET t == a[i] + b[i] + carry
             rest == AddLimbs(a, b, t \div LimbBase, i + 1)
         IN  [limbs |-> <<t % LimbBase>> \o rest.limbs, carry |-> rest.carry]

\* a + b: the wrapped value, and whether it overflowed.
U64Add(a, b) ==
    LET r == AddLimbs(a, b, 0, 1)
    IN  [v |-> r.limbs, overflow |-> r.carry > 0]

RECURSIVE SubLimbs(_, _, _, _)
SubLimbs(a, b, borrow, i) ==
    IF i > NumLimbs THEN [limbs |-> <<>>, borrow |-> borrow]
    ELSE LET t == a[i] - b[i] - borrow
             rest == SubLimbs(a, b, IF t < 0 THEN 1 ELSE 0, i + 1)
         IN  [limbs |-> <<(t + LimbBase) % LimbBase>> \o rest.limbs,
              borrow |-> rest.borrow]

\* a - b: the wrapped value, and whether it went below zero.
U64Sub(a, b) ==
    LET r == SubLimbs(a, b, 0, 1)
    IN  [v |-> r.limbs, overflow |-> r.borrow > 0]

RECURSIVE LessLimbs(_, _, _)
LessLimbs(a, b, i) ==
    IF i < 1 THEN FALSE
    ELSE IF a[i] # b[i] THEN a[i] < b[i]
    ELSE LessLimbs(a, b, i - 1)

U64Less(a, b) == LessLimbs(a, b, NumLimbs)

RECURSIVE DivLimbs(_, _, _)
\* n \div 10 and n % 10, from the top limb down
DivLimbs(n, rem, i) ==
    IF i < 1 THEN [limbs |-> <<>>, rem |-> rem]
    ELSE LET cur == rem * LimbBase + n[i]
             rest == DivLimbs(n, cur % 10, i - 1)
         IN  [limbs |-> rest.limbs \o <<cur \div 10>>, rem |-> rest.rem]

DigitChars == <<"0", "1", "2", "3", "4", "5", "6", "7", "8", "9">>

RECURSIVE U64ToString(_)
\* format!("{}", value) of a u64
U64ToString(n) ==
    LET d == DivLimbs(n, 0, NumLimbs)
    IN  IF d.limbs = U64Zero THEN DigitChars[d.rem + 1]
        ELSE U64ToString(d.limbs) \o DigitChars[d.rem + 1]

(***************************************************************************)
(* dom/node.rs: Node.  A node is known by its index in nodes; 0 is an      *)
(* empty Option or Weak::new().  A node whose last owner is gone is        *)
(* Dropped, and a Weak link to it no longer upgrades.                      *)
(***************************************************************************)
None == [t |-> "None"]
Some(v) == [t |-> "Some", v |-> v]

Document == [k |-> "Document"]
Element(kind, attributes) == [k |-> "Element", kind |-> kind, attributes |-> attributes]
Text(s) == [k |-> "Text", s |-> s]
Attribute(name, value) == [name |-> name, value |-> value]

\* Node::new
Node_new(kind) ==
    [kind |-> kind, parent |-> 0, first_child |-> 0, last_child |-> 0,
     previuos_sibling |-> 0, next_sibling |-> 0]

Dropped == [kind |-> [k |-> "Dropped"], parent |-> 0, first_child |-> 0,
            last_child |-> 0, previuos_sibling |-> 0, next_sibling |-> 0]

\* Node::set_first_child
set_first_child(ns, n, first_child) == [ns EXCEPT ![n].first_child = first_child]

\* Weak::upgrade: the node, or 0 once it is dropped
Upgrade(ns, w) == IF w = 0 \/ ns[w] = Dropped THEN 0 ELSE w

RECURSIVE Owned(_, _, _)
\* The nodes kept alive by the owning links (first_child, next_sibling) from
\* the nodes of the set todo; done are those already visited.
Owned(ns, todo, done) ==
    IF todo = {} THEN done
    ELSE LET n == CHOOSE x \in todo : TRUE
             succ == {ns[n].first_child, ns[n].next_sibling} \ {0}
         IN  Owned(ns, (todo \cup succ) \ (done \cup {n}), done \cup {n})

RECURSIVE AttributesDebug(_, _)
AttributesDebug(attributes, i) ==
    IF i > Len(attributes) THEN ""
    ELSE attributes[i].name \o "=" \o attributes[i].value \o ";"
             \o AttributesDebug(attributes, i + 1)

\* The text the derived Debug gives for a NodeKind.
KindDebug(kind) ==
    IF kind.k = "Document" THEN "Document"
    ELSE IF kind.k = "Text" THEN "Text(" \o kind.s \o ")"
    ELSE "Element(" \o kind.kind \o "," \o AttributesDebug(kind.attributes, 1) \o ")"

RECURSIVE NodeDebug(_, _)
\* format!("{:#?}", object) of a node: its kind and, recursively, the nodes
\* it owns; each Weak link prints as (Weak) whatever it points to.
NodeDebug(ns, n) ==
    IF n = 0 THEN "None"
    ELSE "Node{" \o KindDebug(ns[n].kind) \o ","
             \o NodeDebug(ns, ns[n].first_child) \o ","
             \o NodeDebug(ns, ns[n].next_sibling) \o "}"

(***************************************************************************)
(* dom/node.rs: equality.  Element derives PartialEq, which compares every *)
(* field; NodeKind and Node implement it by hand.  Attribute is defined in *)
(* html/attribute.rs, outside these sources: its equality is taken to      *)
(* compare name and value.                                                 *)
(***************************************************************************)
ElementKinds == {"html", "head", "style", "script", "body", "p", "h1", "h2", "a"}

\* <Attribute as PartialEq>::eq
Attribute_eq(a, b) == a.name = b.name /\ a.value = b.value

\* <Vec<Attribute> as PartialEq>::eq: same length and equal item by item
Attributes_eq(v, w) ==
    /\ Len(v) = Len(w)
    /\ \A i \in 1..Len(v) : Attribute_eq(v[i], w[i])

\* <Element as PartialEq>::eq, derived: kind and attributes
Element_eq(e1, e2) ==
    /\ e1.kind = e2.kind
    /\ Attributes_eq(e1.attributes, e2.attributes)

\* <NodeKind as PartialEq>::eq
NodeKind_eq(self, other) ==
    IF self.k = "Document" THEN other.k = "Document"
    ELSE IF self.k = "Element"
    THEN IF other.k = "Element" THEN self.kind = other.kind ELSE FALSE
    ELSE other.k = "Text"

\* <Node as PartialEq>::eq
Node_eq(self, other) == NodeKind_eq(self.kind, other.kind)

\* no comparison is under way
NoComparison == /\ lhsElement = None
                /\ rhsElement = None
                /\ equal = None

(***************************************************************************)
(* js/runtime.rs: RuntimeValue                                             *)
(***************************************************************************)
Number(n) == [t |-> "Number", n |-> n]
StringLiteral(s) == [t |-> "StringLiteral", s |-> s]
HtmlElement(object, property) ==
    [t |-> "HtmlElement", object |-> object, property |-> property]

\* impl Display for RuntimeValue
to_string(ns, v) ==
    IF v.t = "Number" THEN U64ToString(v.n)
    ELSE IF v.t = "StringLiteral" THEN v.s
    ELSE "HtmlElement " \o NodeDebug(ns, v.object)

OverflowPanic == "attempt to compute with overflow"

\* impl Add for RuntimeValue: the value, or the panic of the overflow check
Add(ns, self, rhs, checks) ==
    IF self.t = "Number" /\ rhs.t = "Number"
    THEN LET r == U64Add(self.n, rhs.n)
         IN  IF r.overflow /\ checks THEN [v |-> None, panic |-> OverflowPanic]
             ELSE [v |-> Number(r.v), panic |-> ""]
    ELSE [v |-> StringLiteral(to_string(ns, self) \o to_string(ns, rhs)), panic |-> ""]

\* impl Sub for RuntimeValue: the value, or the panic of the overflow check
Sub(self, other, checks) ==
    IF self.t = "Number" /\ other.t = "Number"
    THEN LET r == U64Sub(self.n, other.n)
         IN  IF r.overflow /\ checks THEN [v |-> None, panic |-> OverflowPanic]
             ELSE [v |-> Number(r.v), panic |-> ""]
    ELSE [v |-> Number(U64Zero), panic |-> ""]

(***************************************************************************)
(* js/runtime.rs: Environment.  An Environment is known by its index in    *)
(* the sequence of live Environments; outer = 0 is no outer Environment.   *)
(***************************************************************************)
Root == 1

\* Environment::new, allocated: the live Environments with the new one last
Environment_new(es, outer) == Append(es, [variables |-> <<>>, outer |-> outer])

Binding(name, value) == [name |-> name, value |-> value]

\* the index of the first binding of name in variables, 0 if there is none
FirstIndex(variables, name) ==
    IF \E i \in 1..Len(variables) : variables[i].name = name
    THEN CHOOSE i \in 1..Len(variables) :
             /\ variables[i].name = name
             /\ \A j \in 1..(i - 1) : variables[j].name # name
    ELSE 0

BorrowPanic == "already borrowed: BorrowMutError"

RECURSIVE get_variable(_, _, _, _)
\* Environment::get_variable on Environment e, whose RefCell the caller has
\* borrowed; held are the Environments mutably borrowed further up the call
\* stack, so borrowing one of them again panics.
get_variable(es, e, name, held) ==
    LET i == FirstIndex(es[e].variables, name)
    IN  IF i # 0 THEN [v |-> es[e].variables[i].value, panic |-> ""]
        ELSE IF es[e].outer # 0
        THEN IF es[e].outer \in held THEN [v |-> None, panic |-> BorrowPanic]
             ELSE get_variable(es, es[e].outer, name, held)
        ELSE [v |-> None, panic |-> ""]

\* Environment::add_variable on Environment e
add_variable(es, e, name, value) ==
    [es EXCEPT ![e].variables = Append(@, Binding(name, value))]

\* update_variable with an assignment to a name the frame does not bind
\* escalated to the outer frames
RECURSIVE update_variable_escalating(_, _, _, _)
update_variable_escalating(es, e, name, value) ==
    LET variables == es[e].variables
        i == FirstIndex(variables, name)
    IN  IF i = 0
        THEN IF es[e].outer = 0 THEN es
             ELSE update_variable_escalating(es, es[e].outer, name, value)
        ELSE [es EXCEPT ![e].variables =
                 Append(SubSeq(variables, 1, i - 1)
                            \o SubSeq(variables, i + 1, Len(variables)),
                        Binding(name, value))]

\* update_variable with an assignment to a name the frame does not bind
\* creating the binding
update_variable_creating(es, e, name, value) ==
    LET variables == es[e].variables
        i == FirstIndex(variables, name)
    IN  [es EXCEPT ![e].variables =
            Append(SubSeq(variables, 1, i - 1)
                       \o SubSeq(variables, i + 1, Len(variables)),
                   Binding(name, value))]

\* Environment::update_variable on Environment e
update_variable(es, e, name, value) ==
    LET variables == es[e].variables
        i == FirstIndex(variables, name)
    IN  IF i = 0 THEN es
        ELSE [es EXCEPT ![e].variables =
                 Append(SubSeq(variables, 1, i - 1)
                            \o SubSeq(variables, i + 1, Len(variables)),
                        Binding(name, value))]

(***************************************************************************)
(* The AST the evaluator walks: the shapes of js::ast::Node that eval      *)
(* matches on.  An absent node (Option::None) is None.                     *)
(***************************************************************************)
ExpressionStatement(expr) == [k |-> "ExpressionStatement", expr |-> expr]
AdditiveExpression(operator, left, right) ==
    [k |-> "AdditiveExpression", operator |-> operator, left |-> left, right |-> right]
AssignmentExpression(operator, left, right) ==
    [k |-> "AssignmentExpression", operator |-> operator, left |-> left, right |-> right]
MemberExpression(object, property) ==
    [k |-> "MemberExpression", object |-> object, property |-> property]
NumericLiteral(value) == [k |-> "NumericLiteral", value |-> value]
VariableDeclaration(declarations) ==
    [k |-> "VariableDeclaration", declarations |-> declarations]
VariableDeclarator(id, init) == [k |-> "VariableDeclarator", id |-> id, init |-> init]
Identifier(name) == [k |-> "Identifier", name |-> name]
StringLiteralNode(value) == [k |-> "StringLiteral", value |-> value]
CallExpression(callee, arguments) ==
    [k |-> "CallExpression", callee |-> callee, arguments |-> arguments]
BlockStatement(body) == [k |-> "BlockStatement", body |-> body]
ReturnStatement(argument) == [k |-> "ReturnStatement", argument |-> argument]
FunctionDeclaration(id, params, body) ==
    [k |-> "FunctionDeclaration", id |-> id, params |-> params, body |-> body]

\* Function::new
Function(id, params, body) == [id |-> id, params |-> params, body |-> body]

(***************************************************************************)
(* dom::api::get_element_by_id is not among the sources; it is modelled    *)
(* from its contract: a pre-order, document-order search for the first     *)
(* Element that carries an attribute id with the given value.              *)
(***************************************************************************)
RECURSIVE PreOrder(_, _)
PreOrder(ns, n) ==
    IF n = 0 THEN <<>>
    ELSE <<n>> \o PreOrder(ns, ns[n].first_child) \o PreOrder(ns, ns[n].next_sibling)

HasId(node, id) ==
    /\ node.kind.k = "Element"
    /\ \E i \in 1..Len(node.kind.attributes) :
           /\ node.kind.attributes[i].name = "id"
           /\ node.kind.attributes[i].value = id

\* the node found, or 0
get_element_by_id(ns, root, id) ==
    LET order == PreOrder(ns, root)
        hits == {i \in 1..Len(order) : HasId(ns[order[i]], id)}
    IN  IF hits = {} THEN 0
        ELSE order[CHOOSE i \in hits : \A j \in hits : i <= j]

(***************************************************************************)
(* js/runtime.rs: JsRuntime::eval.  The evaluator's state st holds the     *)
(* live Environments, the function table, the DOM nodes, the log of        *)
(* Environment operations and the panic, if one was raised.  eval returns  *)
(* the state it leaves and the value it returns; after a panic nothing     *)
(* more is evaluated.                                                      *)
(***************************************************************************)
Ret(st, v) == [st |-> st, v |-> v]
Abort(st, why) == [st |-> [st EXCEPT !.panic = why], v |-> None]

\* An Environment operation on e that turns the Environments into es, logged.
LogOp(st, op, e, name, value, es) ==
    [st EXCEPT !.envs = es,
               !.ops = Append(@, [op |-> op, env |-> e, name |-> name,
                                  value |-> value, before |-> st.envs,
                                  after |-> es])]

RECURSIVE eval(_, _, _, _)
RECURSIVE eval_each(_, _, _, _, _, _)
RECURSIVE bind_params(_, _, _, _, _, _)

\* for x in list { result = self.eval(x, env) }: the value of the last one
eval_each(list, i, e, held, st, res) ==
    IF i > Len(list) \/ st.panic # "" THEN Ret(st, res)
    ELSE LET r == eval(list[i], e, held, st)
         IN  IF r.st.panic # "" THEN Ret(r.st, None)
             ELSE eval_each(list, i + 1, e, held, r.st, r.v)

EvalAdditiveExpression(node, e, held, st) ==
    LET l == eval(node.left, e, held, st)
    IN  IF l.st.panic # "" \/ l.v = None THEN Ret(l.st, None)
        ELSE LET r == eval(node.right, e, held, l.st)
             IN  IF r.st.panic # "" \/ r.v = None THEN Ret(r.st, None)
                 ELSE IF node.operator = "+"
                 THEN LET a == Add(r.st.nodes, l.v, r.v, overflowChecks)
                      IN  IF a.panic # "" THEN Abort(r.st, a.panic)
                          ELSE Ret(r.st, a.v)
                 ELSE IF node.operator = "-"
                 THEN LET a == Sub(l.v, r.v, overflowChecks)
                      IN  IF a.panic # "" THEN Abort(r.st, a.panic)
                          ELSE Ret(r.st, a.v)
                 ELSE Ret(r.st, None)

\* the textContent branch with the new Text node put in front of the
\* children the target has instead of in their place
SetTextContentKeepingChildren(st, object, right_value) ==
    LET text == [Node_new(Text(to_string(st.nodes, right_value)))
                     EXCEPT !.next_sibling = st.nodes[object].first_child]
        ns == Append(st.nodes, text)
    IN  [st EXCEPT !.nodes = set_first_child(ns, object, Len(ns))]

\* the textContent branch: the target's first child becomes a new Text node
SetTextContent(st, object, right_value) ==
    LET text == Node_new(Text(to_string(st.nodes, right_value)))
        ns == Append(st.nodes, text)
    IN  [st EXCEPT !.nodes = set_first_child(ns, object, Len(ns))]

EvalAssignmentExpression(node, e, held, st) ==
    IF node.operator # "=" THEN Ret(st, None)
    ELSE IF node.left # None /\ node.left.k = "Identifier"
    THEN LET r == eval(node.right, e, held, st)
         IN  IF r.st.panic # "" THEN Ret(r.st, None)
             ELSE IF e \in held THEN Abort(r.st, BorrowPanic)
             ELSE Ret(LogOp(r.st, "update", e, node.left.name, r.v,
                            update_variable(r.st.envs, e, node.left.name, r.v)),
                      None)
    ELSE LET l == eval(node.left, e, held, st)
         IN  IF l.st.panic # "" THEN Ret(l.st, None)
             ELSE IF l.v.t = "HtmlElement"
             THEN LET r == eval(node.right, e, held, l.st)
                  IN  IF r.st.panic # "" \/ r.v = None THEN Ret(r.st, None)
                      ELSE IF l.v.property = Some("textContent")
                      THEN Ret(SetTextContent(r.st, l.v.object, r.v), None)
                      ELSE Ret(r.st, None)
             ELSE Ret(l.st, None)

EvalMemberExpression(node, e, held, st) ==
    LET o == eval(node.object, e, held, st)
    IN  IF o.st.panic # "" \/ o.v = None THEN Ret(o.st, None)
        ELSE LET p == eval(node.property, e, held, o.st)
             IN  IF p.st.panic # "" THEN Ret(p.st, None)
                 ELSE IF p.v = None THEN Ret(p.st, o.v)
                 ELSE IF o.v.t = "HtmlElement"
                 THEN IF o.v.property # None
                      THEN Abort(p.st, "assertion failed: property.is_none()")
                      ELSE Ret(p.st, HtmlElement(o.v.object,
                                                 Some(to_string(p.st.nodes, p.v))))
                 ELSE LET dotted == Add(p.st.nodes, o.v, StringLiteral("."),
                                        overflowChecks)
                          whole == Add(p.st.nodes, dotted.v, p.v, overflowChecks)
                      IN  Ret(p.st, whole.v)

EvalVariableDeclaration(node, e, held, st) ==
    Ret(eval_each(node.declarations, 1, e, held, st, None).st, None)

EvalVariableDeclarator(node, e, held, st) ==
    IF node.id # None /\ node.id.k = "Identifier"
    THEN LET init == eval(node.init, e, held, st)
         IN  IF init.st.panic # "" THEN Ret(init.st, None)
             ELSE IF e \in held THEN Abort(init.st, BorrowPanic)
             ELSE Ret(LogOp(init.st, "add", e, node.id.name, init.v,
                            add_variable(init.st.envs, e, node.id.name, init.v)),
                      None)
    ELSE Ret(st, None)

EvalIdentifier(node, e, held, st) ==
    IF e \in held THEN Abort(st, BorrowPanic)
    ELSE LET g == get_variable(st.envs, e, node.name, held)
         IN  IF g.panic # "" THEN Abort(st, g.panic)
             ELSE IF g.v = None THEN Ret(st, StringLiteral(node.name))
             ELSE Ret(st, g.v)

\* JsRuntime::call_browser_api: called is the bool of the source's tuple
call_browser_api(func, arguments, env, held, st) ==
    IF func = StringLiteral("document.getElementById")
    THEN IF Len(arguments) = 0
         THEN [called |-> TRUE, r |-> Abort(st, "index out of bounds")]
         ELSE LET arg == eval(arguments[1], env, held, st)
              IN  IF arg.st.panic # "" \/ arg.v = None
                  THEN [called |-> TRUE, r |-> Ret(arg.st, None)]
                  ELSE LET target == get_element_by_id(arg.st.nodes, 1,
                                         to_string(arg.st.nodes, arg.v))
                       IN  IF target = 0
                           THEN [called |-> TRUE, r |-> Ret(arg.st, None)]
                           ELSE [called |-> TRUE,
                                 r |-> Ret(arg.st, HtmlElement(target, None))]
    ELSE [called |-> FALSE, r |-> Ret(st, None)]

\* the function a CallExpression selects: the index in the function table of
\* the entry the search loop leaves in f, 0 if it leaves none
FindFunction(fs, callee_value) ==
    LET hits == {i \in 1..Len(fs) : callee_value = StringLiteral(fs[i].id)}
    IN  IF hits = {} THEN 0
        ELSE CHOOSE i \in hits : \A j \in hits : j <= i

\* the loop binding the arguments, from the i-th on
bind_params(function, arguments, i, new_env, held, st) ==
    IF i > Len(arguments) \/ st.panic # "" THEN st
    ELSE LET p == eval(function.params[i], new_env, held, st)
         IN  IF p.st.panic # "" THEN p.st
             ELSE IF p.v.t = "StringLiteral"
             THEN \* new_env.borrow_mut() is taken before the argument is
                  \* evaluated and held until add_variable returns
                  IF new_env \in held THEN Abort(p.st, BorrowPanic).st
                  ELSE LET a == eval(arguments[i], new_env,
                                     held \cup {new_env}, p.st)
                       IN  IF a.st.panic # "" THEN a.st
                           ELSE bind_params(function, arguments, i + 1, new_env, held,
                                    LogOp(a.st, "add", new_env, p.v.s, a.v,
                                          add_variable(a.st.envs, new_env, p.v.s, a.v)))
             ELSE bind_params(function, arguments, i + 1, new_env, held, p.st)

\* the CallExpression arm once new_env exists
CallInScope(node, new_env, held, st) ==
    LET callee_value == eval(node.callee, new_env, held, st)
    IN  IF callee_value.st.panic # "" \/ callee_value.v = None
        THEN Ret(callee_value.st, None)
        ELSE LET api_result == call_browser_api(callee_value.v, node.arguments,
                                                new_env, held, callee_value.st)
             IN  IF api_result.called THEN api_result.r
                 ELSE LET f == FindFunction(callee_value.st.functions, callee_value.v)
                      IN  IF f = 0
                          THEN Abort(callee_value.st, "function doesn't exist")
                          ELSE LET function == callee_value.st.functions[f]
                               IN  IF Len(node.arguments) # Len(function.params)
                                   THEN Abort(callee_value.st,
                                          "assertion failed: arguments.len() == function.params.len()")
                                   ELSE LET bound == bind_params(function, node.arguments,
                                                         1, new_env, held, callee_value.st)
                                        IN  IF bound.panic # "" THEN Ret(bound, None)
                                            ELSE eval(function.body, new_env, held, bound)

\* the CallExpression arm evaluating in the caller's Environment instead of a
\* new one
EvalCallExpression_in_caller_scope(node, e, held, st) == CallInScope(node, e, held, st)

\* new_env is dropped when the arm returns
EvalCallExpression(node, e, held, st) ==
    LET es == Environment_new(st.envs, e)
        r == CallInScope(node, Len(es), held, [st EXCEPT !.envs = es])
    IN  IF r.st.panic # "" THEN r
        ELSE Ret([r.st EXCEPT !.envs = SubSeq(@, 1, Len(st.envs))], r.v)

RECURSIVE eval_until_return(_, _, _, _, _, _)
\* the loop over a block's body leaving the block at the first ReturnStatement
eval_until_return(list, i, e, held, st, res) ==
    IF i > Len(list) \/ st.panic # "" THEN Ret(st, res)
    ELSE LET r == eval(list[i], e, held, st)
         IN  IF r.st.panic # "" THEN Ret(r.st, None)
             ELSE IF list[i] # None /\ list[i].k = "ReturnStatement" THEN r
             ELSE eval_until_return(list, i + 1, e, held, r.st, r.v)

\* the BlockStatement arm with a ReturnStatement ending the block
EvalBlockStatement_returning(node, e, held, st) ==
    eval_until_return(node.body, 1, e, held, st, None)

EvalBlockStatement(node, e, held, st) == eval_each(node.body, 1, e, held, st, None)

EvalReturnStatement(node, e, held, st) == eval(node.argument, e, held, st)

EvalFunctionDeclaration(node, e, held, st) ==
    LET id == eval(node.id, e, held, st)
    IN  IF id.st.panic # "" THEN Ret(id.st, None)
        ELSE IF id.v.t = "StringLiteral"
        THEN Ret([id.st EXCEPT !.functions =
                      Append(@, Function(id.v.s, node.params, node.body))], None)
        ELSE Ret(id.st, None)

eval(node, e, held, st) ==
    IF st.panic # "" \/ node = None THEN Ret(st, None)
    ELSE CASE node.k = "ExpressionStatement" -> eval(node.expr, e, held, st)
           [] node.k = "AdditiveExpression" -> EvalAdditiveExpression(node, e, held, st)
           [] node.k = "AssignmentExpression" -> EvalAssignmentExpression(node, e, held, st)
           [] node.k = "MemberExpression" -> EvalMemberExpression(node, e, held, st)
           [] node.k = "NumericLiteral" -> Ret(st, Number(node.value))
           [] node.k = "VariableDeclaration" -> EvalVariableDeclaration(node, e, held, st)
           [] node.k = "VariableDeclarator" -> EvalVariableDeclarator(node, e, held, st)
           [] node.k = "Identifier" -> EvalIdentifier(node, e, held, st)
           [] node.k = "StringLiteral" -> Ret(st, StringLiteral(node.value))
           [] node.k = "CallExpression" -> EvalCallExpression(node, e, held, st)
           [] node.k = "BlockStatement" -> EvalBlockStatement(node, e, held, st)
           [] node.k = "ReturnStatement" -> EvalReturnStatement(node, e, held, st)
           [] node.k = "FunctionDeclaration" -> EvalFunctionDeclaration(node, e, held, st)

(***************************************************************************)
(* JsRuntime as a state machine: one action, execute evaluating the next   *)
(* top-level statement of the program against the root Environment.        *)
(***************************************************************************)
MaxSteps == 3

\* JsRuntime::new
NewRuntime(dom) ==
    /\ envs = <<[variables |-> <<>>, outer |-> 0]>>
    /\ functions = <<>>
    /\ nodes = dom
    /\ returned = None
    /\ panic = ""
    /\ last = None
    /\ ops = <<>>
    /\ steps = 0

\* the state eval starts from when execute evaluates a statement
EvalState(es, fs, ns) ==
    [envs |-> es, functions |-> fs, nodes |-> ns, ops |-> <<>>, panic |-> ""]

\* the nodes the HtmlElement values bound in the Environments refer to
HeldNodes(es) ==
    UNION {{es[e].variables[i].value.object :
               i \in {j \in 1..Len(es[e].variables) :
                         es[e].variables[j].value.t = "HtmlElement"}} :
           e \in 1..Len(es)}

\* Rc drop: a node no owner reaches any more (from the DOM root or from an
\* HtmlElement value) is gone
Collect(ns, es) ==
    LET alive == Owned(ns, {1} \cup HeldNodes(es), {})
    IN  [n \in 1..Len(ns) |-> IF n \in alive THEN ns[n] ELSE Dropped]

\* one iteration of the loop of JsRuntime::execute
Execute(stmt) ==
    /\ panic = ""
    /\ steps < MaxSteps
    /\ LET r == eval(stmt, Root, {}, EvalState(envs, functions, nodes))
       IN  /\ envs' = r.st.envs
           /\ functions' = r.st.functions
           /\ nodes' = Collect(r.st.nodes, r.st.envs)
           /\ returned' = r.v
           /\ panic' = r.st.panic
           /\ ops' = r.st.ops
    /\ last' = stmt
    /\ steps' = steps + 1
    /\ UNCHANGED <<overflowChecks, input, pos, token, lexPanic>>
    /\ UNCHANGED eqVars

(***************************************************************************)
(* js/token.rs: JsLexer.  Characters are one-character strings, the input  *)
(* is a sequence of them, and pos counts from 0 as in the source           *)
(* (input[pos] of the source is inp[pos + 1] here).                        *)
(***************************************************************************)
RESERVED_WORDS == << <<"v", "a", "r">>,
                     <<"f", "u", "n", "c", "t", "i", "o", "n">>,
                     <<"r", "e", "t", "u", "r", "n">> >>

Digits == {DigitChars[i] : i \in 1..Len(DigitChars)}
DigitValue(c) == CHOOSE d \in 0..9 : DigitChars[d + 1] = c

LowerCase == {"a", "b", "c", "d", "e", "f", "g", "h", "i", "j", "k", "l", "m",
              "n", "o", "p", "q", "r", "s", "t", "u", "v", "w", "x", "y", "z"}
UpperCase == {"A", "B", "C", "D", "E", "F", "G", "H", "I", "J", "K", "L", "M",
              "N", "O", "P", "Q", "R", "S", "T", "U", "V", "W", "X", "Y", "Z"}
\* char::is_ascii_alphabetic
IsAsciiAlphabetic(c) == c \in LowerCase \cup UpperCase

Punctuators == {"+", "-", "=", ";", "(", ")", "{", "}", ",", "."}

TokPunctuator(c) == [t |-> "Punctuator", c |-> c]
TokNumber(n) == [t |-> "Number", n |-> n]
TokIdentifier(s) == [t |-> "Identifier", s |-> s]
TokKeyword(s) == [t |-> "Keyword", s |-> s]
TokStringLiteral(s) == [t |-> "StringLiteral", s |-> s]

RECURSIVE cunsume_number(_, _, _, _)
\* The loop of JsLexer::cunsume_number from position p with accumulator num.
\* num * 10 + digit is plain u64 arithmetic: with overflow checks it panics,
\* without them it wraps.
cunsume_number(inp, p, num, checks) ==
    IF p >= Len(inp) THEN [num |-> num, pos |-> p, panic |-> ""]
    ELSE LET c == inp[p + 1]
         IN  IF c \in Digits
             THEN LET r == U64MulAdd(num, 10, DigitValue(c))
                  IN  IF r.overflow /\ checks
                      THEN [num |-> num, pos |-> p,
                            panic |-> "attempt to multiply or add with overflow"]
                      ELSE cunsume_number(inp, p + 1, r.v, checks)
             ELSE [num |-> num, pos |-> p, panic |-> ""]

RECURSIVE contains(_, _, _, _)
\* JsLexer::contains from index i of the keyword: "true", "false", or
\* "panic" when self.input[self.pos + i] is past the end of the input.
contains(inp, p, keyword, i) ==
    IF i >= Len(keyword) THEN "true"
    ELSE IF p + i >= Len(inp) THEN "panic"
    ELSE IF keyword[i + 1] # inp[p + i + 1] THEN "false"
    ELSE contains(inp, p, keyword, i + 1)

RECURSIVE check_reserved_word(_, _, _)
\* JsLexer::check_reserved_word from the w-th reserved word on.
check_reserved_word(inp, p, w) ==
    IF w > Len(RESERVED_WORDS) THEN [found |-> FALSE, word |-> <<>>, panic |-> ""]
    ELSE LET r == contains(inp, p, RESERVED_WORDS[w], 0)
         IN  IF r = "panic"
             THEN [found |-> FALSE, word |-> <<>>,
                   panic |-> "index out of bounds"]
             ELSE IF r = "true"
             THEN [found |-> TRUE, word |-> RESERVED_WORDS[w], panic |-> ""]
             ELSE check_reserved_word(inp, p, w + 1)

RECURSIVE consume_indentifier(_, _, _)
consume_indentifier(inp, p, result) ==
    IF p >= Len(inp) THEN [s |-> result, pos |-> p]
    ELSE IF IsAsciiAlphabetic(inp[p + 1]) \/ inp[p + 1] = "$"
    THEN consume_indentifier(inp, p + 1, Append(result, inp[p + 1]))
    ELSE [s |-> result, pos |-> p]

RECURSIVE consume_string_loop(_, _, _)
consume_string_loop(inp, p, result) ==
    IF p >= Len(inp) THEN [s |-> result, pos |-> p]
    ELSE IF inp[p + 1] = "\"" THEN [s |-> result, pos |-> p + 1]
    ELSE consume_string_loop(inp, p + 1, Append(result, inp[p + 1]))

consume_string(inp, p) == consume_string_loop(inp, p + 1, <<>>)

RECURSIVE skip_whitespace(_, _)
\* The while loop at the head of next: the position of the first character
\* that is neither ' ' nor '\n', or Len(inp) when the input ends first.
skip_whitespace(inp, p) ==
    IF inp[p + 1] = " " \/ inp[p + 1] = "\n"
    THEN IF p + 1 >= Len(inp) THEN p + 1 ELSE skip_whitespace(inp, p + 1)
    ELSE p

\* The character dispatch of next at position p.
dispatch(inp, p, checks) ==
    LET c == inp[p + 1]
    IN  IF c \in Punctuators
        THEN [pos |-> p + 1, token |-> TokPunctuator(c), panic |-> ""]
        ELSE IF c \in Digits
        THEN LET r == cunsume_number(inp, p, U64Zero, checks)
             IN  [pos |-> r.pos,
                  token |-> IF r.panic = "" THEN TokNumber(r.num) ELSE None,
                  panic |-> r.panic]
        ELSE IF IsAsciiAlphabetic(c) \/ c = "_" \/ c = "$"
        THEN LET r == consume_indentifier(inp, p, <<>>)
             IN  [pos |-> r.pos, token |-> TokIdentifier(r.s), panic |-> ""]
        ELSE IF c = "\""
        THEN LET r == consume_string(inp, p)
             IN  [pos |-> r.pos, token |-> TokStringLiteral(r.s), panic |-> ""]
        ELSE [pos |-> p, token |-> None, panic |-> "not supported yet"]

\* <JsLexer as Iterator>::next: the new position, the item returned and the
\* reason of the abort, if any.
JsLexer_next(inp, p, checks) ==
    IF p >= Len(inp) THEN [pos |-> p, token |-> None, panic |-> ""]
    ELSE LET q == skip_whitespace(inp, p)
         IN  IF q >= Len(inp) THEN [pos |-> q, token |-> None, panic |-> ""]
             ELSE LET kw == check_reserved_word(inp, q, 1)
                  IN  IF kw.panic # ""
                      THEN [pos |-> q, token |-> None, panic |-> kw.panic]
                      ELSE IF kw.found
                      THEN [pos |-> q + Len(kw.word),
                            token |-> TokKeyword(kw.word), panic |-> ""]
                      ELSE dispatch(inp, q, checks)

(***************************************************************************)
(* The lexer as a state machine: one action, a call of next.               *)
(***************************************************************************)
MaxInputLen == 3
MaxDigits == 20

LexAlphabet == {" ", "1", "v", "a", "r", "_", "$", "\"", "+", "#"}

RECURSIVE SeqsUpTo(_, _)
SeqsUpTo(S, n) ==
    IF n = 0 THEN {<<>>}
    ELSE LET shorter == SeqsUpTo(S, n - 1)
         IN  shorter \cup {Append(s, c) : s \in shorter, c \in S}

DigitRuns == {[i \in 1..n |-> d] : d \in {"0", "1", "9"}, n \in 1..MaxDigits}

\* 2^64 - 1 and 2^64 in decimal
BoundaryNumbers ==
    { <<"1","8","4","4","6","7","4","4","0","7","3","7","0","9","5","5","1","6","1","5">>,
      <<"1","8","4","4","6","7","4","4","0","7","3","7","0","9","5","5","1","6","1","6">>,
      <<"4","2">> }

LexerInputs == SeqsUpTo(LexAlphabet, MaxInputLen) \cup DigitRuns \cup BoundaryNumbers

NotCalled == [t |-> "NotCalled"]

DocumentOnly == <<Node_new(Document)>>

\* JsLexer::new; no program is run
LexInit == /\ overflowChecks \in BOOLEAN
           /\ input \in LexerInputs
           /\ pos = 0
           /\ token = NotCalled
           /\ lexPanic = ""
           /\ NewRuntime(DocumentOnly)
           /\ NoComparison

LexNext ==
    /\ lexPanic = ""
    /\ LET r == JsLexer_next(input, pos, overflowChecks)
       IN  /\ pos' = r.pos
           /\ token' = r.token
           /\ lexPanic' = r.panic
    /\ UNCHANGED <<overflowChecks, input>>
    /\ UNCHANGED rtVars
    /\ UNCHANGED eqVars

SpecLexer == LexInit /\ [][LexNext]_vars

(***************************************************************************)
(* Properties of the lexer, checked under SpecLexer.                       *)
(***************************************************************************)
IsDigitOnly(inp) == Len(inp) > 0 /\ \A i \in 1..Len(inp) : inp[i] \in Digits

RECURSIVE DecimalMod(_, _, _)
\* The decimal value of inp reduced modulo 2^64: acc is the value of the
\* first k digits.
DecimalMod(inp, k, acc) ==
    IF k >= Len(inp) THEN acc
    ELSE LET next == U64MulAdd(acc, 10, DigitValue(inp[k + 1]))
         IN  \* next.v is the value modulo 2^64 whether or not it overflowed
             IF next.overflow \in BOOLEAN THEN DecimalMod(inp, k + 1, next.v)
             ELSE acc

DecimalValue(inp) == DecimalMod(inp, 0, U64Zero)

SupportedChars == {" ", "\n", "_", "$", "\""} \cup Punctuators \cup Digits
                      \cup LowerCase \cup UpperCase

IsSupportedOnly(inp) == \A i \in 1..Len(inp) : inp[i] \in SupportedChars

\* C6: on a digit-only input the lexer never aborts, its first call of next
\* returns Number(n) with n the decimal value of the input modulo 2^64 and
\* consumes the whole input, and the call after it returns nothing.
C6_DigitsLexToOneNumber ==
    IsDigitOnly(input) =>
        /\ lexPanic = ""
        /\ \/ token = NotCalled /\ pos = 0
           \/ token = TokNumber(DecimalValue(input)) /\ pos = Len(input)
           \/ token = None /\ pos = Len(input)

\* C7: every call of next that returns a token strictly advances the read
\* position (so the token sequence is finite), and once next has returned
\* nothing it returns nothing ever after.
C7_TokensAdvance ==
    [][/\ (lexPanic' = "" /\ token' # None) => pos' > pos
       /\ token = None => token' = None]_vars

\* C8: on an input made solely of supported characters, no call of next
\* aborts, whatever the length of the input that remains.  (Stated for the
\* inputs of at most MaxInputLen characters, too short for a number to
\* overflow.)
C8_SupportedInputNeverAborts ==
    (IsSupportedOnly(input) /\ Len(input) <= MaxInputLen) => lexPanic = ""

(***************************************************************************)
(* Programs.  Spec runs statements over variables and functions; SpecDom   *)
(* runs statements that reach the DOM.                                     *)
(***************************************************************************)
Var(name, init) == VariableDeclaration(<<VariableDeclarator(Identifier(name), init)>>)
Assign(left, right) == ExpressionStatement(AssignmentExpression("=", left, right))
Call(name, arguments) == CallExpression(Identifier(name), arguments)

Operands == {U64(1), U64(2), U64Max}

Arithmetic ==
    {ExpressionStatement(AdditiveExpression(op, NumericLiteral(a), NumericLiteral(b))) :
        op \in {"+", "-"}, a \in Operands, b \in Operands}

\* function f() { x = 9; return 1; }
FunctionF1 ==
    FunctionDeclaration(Identifier("f"), <<>>,
        BlockStatement(<<Assign(Identifier("x"), NumericLiteral(U64(9))),
                         ReturnStatement(NumericLiteral(U64(1)))>>))

\* function f() { var x = 5; x = 6; return x; }
FunctionF2 ==
    FunctionDeclaration(Identifier("f"), <<>>,
        BlockStatement(<<Var("x", NumericLiteral(U64(5))),
                         Assign(Identifier("x"), NumericLiteral(U64(6))),
                         ReturnStatement(Identifier("x"))>>))

\* function g(a) { return a; }
FunctionG ==
    FunctionDeclaration(Identifier("g"), <<Identifier("a")>>,
        BlockStatement(<<ReturnStatement(Identifier("a"))>>))

\* function s(a, b) { return a + b; }
FunctionS ==
    FunctionDeclaration(Identifier("s"), <<Identifier("a"), Identifier("b")>>,
        BlockStatement(<<ReturnStatement(
            AdditiveExpression("+", Identifier("a"), Identifier("b")))>>))

\* function k() { var y = 4; return f(); }
FunctionK ==
    FunctionDeclaration(Identifier("k"), <<>>,
        BlockStatement(<<Var("y", NumericLiteral(U64(4))),
                         ReturnStatement(Call("f", <<>>))>>))

\* { return 1; var z = 7; z }
BlockWithReturn ==
    BlockStatement(<<ReturnStatement(NumericLiteral(U64(1))),
                     Var("z", NumericLiteral(U64(7))),
                     ExpressionStatement(Identifier("z"))>>)

Statements ==
    { Var("x", NumericLiteral(U64(1))),
      Var("x", NumericLiteral(U64(2))),
      Assign(Identifier("x"), NumericLiteral(U64(3))),
      Assign(Identifier("y"), NumericLiteral(U64(4))),
      ExpressionStatement(Identifier("x")),
      FunctionF1, FunctionF2, FunctionG,
      ExpressionStatement(Call("f", <<>>)),
      ExpressionStatement(Call("g", <<NumericLiteral(U64(1))>>)),
      ExpressionStatement(Call("g", <<Identifier("x")>>)),
      ExpressionStatement(Call("g", <<Call("f", <<>>)>>)),
      Var("a", NumericLiteral(U64(5))),
      FunctionS, FunctionK, BlockWithReturn,
      ExpressionStatement(Call("s", <<NumericLiteral(U64(1)), NumericLiteral(U64(2))>>)),
      ExpressionStatement(Call("k", <<>>)) }
    \cup Arithmetic

Init == /\ overflowChecks \in BOOLEAN
        /\ input = <<>>
        /\ pos = 0
        /\ token = NotCalled
        /\ lexPanic = ""
        /\ NewRuntime(DocumentOnly)
        /\ NoComparison

Next == \E stmt \in Statements : Execute(stmt)

Spec == Init /\ [][Next]_vars

(***************************************************************************)
(* Properties of the Environment and of the evaluator, checked under Spec. *)
(***************************************************************************)
Bound(es, e, name) == FirstIndex(es[e].variables, name) # 0

Updates == {i \in 1..Len(ops) : ops[i].op = "update"}

\* C1: immediately after assign(name, v) on a frame that holds a binding for
\* name (whatever was declared before, duplicates included), lookup(name) on
\* that frame returns v.
C1_AssignThenLookup ==
    \A i \in Updates :
        Bound(ops[i].before, ops[i].env, ops[i].name) =>
            get_variable(ops[i].after, ops[i].env, ops[i].name, {}).v = ops[i].value

IsSubtraction(stmt) ==
    /\ stmt # None
    /\ stmt.k = "ExpressionStatement"
    /\ stmt.expr.k = "AdditiveExpression"
    /\ stmt.expr.operator = "-"
    /\ stmt.expr.left.k = "NumericLiteral"
    /\ stmt.expr.right.k = "NumericLiteral"

\* C2: a - b on two Numbers yields Number(a - b) when a >= b and Number(0)
\* when a < b; it never yields a wrapped-around value and never aborts.
C2_SubtractionSaturates ==
    IsSubtraction(last) =>
        LET a == last.expr.left.value
            b == last.expr.right.value
        IN  /\ panic = ""
            /\ returned = IF U64Less(a, b) THEN Number(U64Zero)
                          ELSE Number(U64Sub(a, b).v)

\* the names the statement just evaluated assigned on the root Environment
AssignedAtRoot(log) ==
    {log[i].name : i \in {j \in 1..Len(log) : log[j].op = "update" /\ log[j].env = Root}}

\* C5: a name bound in an Environment and not the target of an assign on that
\* Environment is looked up to the same value after a statement as before
\* it, whatever the calls evaluated beneath that Environment declare or
\* assign in their own scopes.
C5_OuterBindingSurvivesCalls ==
    [][\A i \in 1..Len(envs[Root].variables) :
          LET name == envs[Root].variables[i].name
          IN  (panic' = "" /\ name \notin AssignedAtRoot(ops')) =>
                  get_variable(envs', Root, name, {}) = get_variable(envs, Root, name, {})
      ]_vars

\* a call has run a body that declared and assigned x in its own scope while
\* the root Environment binds x
C5_Witness ==
    /\ panic = ""
    /\ Bound(envs, Root, "x")
    /\ \E i \in 1..Len(ops) : ops[i].env # Root /\ ops[i].op = "add" /\ ops[i].name = "x"
    /\ \E i \in Updates : ops[i].env # Root /\ ops[i].name = "x"

IsPlainCall(stmt) ==
    /\ stmt # None
    /\ stmt.k = "ExpressionStatement"
    /\ stmt.expr.k = "CallExpression"
    /\ stmt.expr.callee.k = "Identifier"
    /\ stmt.expr.arguments = <<>>

\* the entries of the function table named name, in declaration order
Declared(fs, name) == {i \in 1..Len(fs) : fs[i].id = name}

\* C9: when the function table holds several entries with the callee's name,
\* a call runs the body of the entry declared first.
C9_FirstDeclarationRuns ==
    [][(/\ IsPlainCall(last')
        /\ panic' = ""
        /\ Cardinality(Declared(functions, last'.expr.callee.name)) > 1) =>
          LET hits == Declared(functions, last'.expr.callee.name)
              first == CHOOSE i \in hits : \A j \in hits : i <= j
              scope == Environment_new(envs, Root)
              body == eval(functions[first].body, Len(scope), {},
                           EvalState(scope, functions, nodes))
          IN  returned' = body.v
      ]_vars

\* C10: assign(name, value) on a frame that holds no binding for name changes
\* nothing: the bindings of that frame and of every other live frame are as
\* before, also when an outer frame binds name.
C10_AssignUnboundIsNoOp ==
    \A i \in Updates :
        ~Bound(ops[i].before, ops[i].env, ops[i].name) => ops[i].after = ops[i].before

\* a body has assigned, inside its call scope, a name that only the caller's
\* scope binds
C10_Witness ==
    \E i \in Updates :
        /\ ops[i].env # Root
        /\ ~Bound(ops[i].before, ops[i].env, ops[i].name)
        /\ Bound(ops[i].before, ops[i].before[ops[i].env].outer, ops[i].name)
        /\ panic = ""

(***************************************************************************)
(* Properties of calls and blocks, checked under Spec.                     *)
(***************************************************************************)
IsCall(stmt) ==
    /\ stmt # None
    /\ stmt.k = "ExpressionStatement"
    /\ stmt.expr.k = "CallExpression"

\* the value the callee of a top-level call evaluates to in the child scope
\* the call creates
CalleeValue(call) ==
    LET scope == Environment_new(envs, Root)
    IN  eval(call.callee, Len(scope), {}, EvalState(scope, functions, nodes)).v

\* the entry of the function table a top-level call selects, 0 if none
Callee(call) == FindFunction(functions, CalleeValue(call))

\* a top-level call of a user function with as many arguments as parameters
IsUserCall(stmt) ==
    /\ IsCall(stmt)
    /\ Callee(stmt.expr) # 0
    /\ Len(stmt.expr.arguments) = Len(functions[Callee(stmt.expr)].params)

AllNumericLiterals(arguments) ==
    \A i \in 1..Len(arguments) : arguments[i].k = "NumericLiteral"

\* C14: in a user-function call with equal argument and parameter counts the
\* child scope binds, for each position i, the name of the i-th parameter to
\* the value of the i-th argument, and lookup of that name in the child scope
\* returns it, whatever the caller's scope chain binds.  (Checked for
\* arguments that are numeric literals, whose value no scope influences.)
C14_ParametersBound ==
    [][(IsUserCall(last') /\ AllNumericLiterals(last'.expr.arguments)) =>
          LET function == functions[Callee(last'.expr)]
              new_env == Len(envs) + 1
          IN  \A i \in 1..Len(function.params) :
                  \E j \in 1..Len(ops') :
                      /\ ops'[j].op = "add"
                      /\ ops'[j].env = new_env
                      /\ ops'[j].name = function.params[i].name
                      /\ ops'[j].value = Number(last'.expr.arguments[i].value)
                      /\ get_variable(ops'[j].after, new_env, ops'[j].name, {}).v
                             = Number(last'.expr.arguments[i].value)
      ]_vars

RECURSIVE InOrder(_, _, _, _)
\* the statements of body from the i-th on, evaluated one after the other on
\* the root Environment, each from the state the one before left: the state
\* after the last one and its result
InOrder(body, i, st, res) ==
    IF i > Len(body) THEN Ret(st, res)
    ELSE LET r == eval(body[i], Root, {}, st)
         IN  IF r.st.panic # "" THEN r
             ELSE InOrder(body, i + 1, r.st, r.v)

\* C15: a BlockStatement evaluates every statement of its body, in order, in
\* the Environment it was given, and its result is the result of the last
\* statement; a ReturnStatement in the body neither stops the statements
\* after it nor fixes the result.
C15_BlockRunsEveryStatement ==
    [][(last' # None /\ last'.k = "BlockStatement") =>
          LET r == InOrder(last'.body, 1, EvalState(envs, functions, nodes), None)
          IN  /\ panic' = r.st.panic
              /\ returned' = r.v
              /\ envs' = r.st.envs
              /\ functions' = r.st.functions
              /\ Len(envs') = Len(envs)
      ]_vars

\* the block { return 1; var z = 7; z } has declared z on the root
\* Environment and returned the value of its last statement
C15_Witness ==
    /\ last = BlockWithReturn
    /\ panic = ""
    /\ returned = Number(U64(7))
    /\ get_variable(envs, Root, "z", {}).v = Number(U64(7))

\* C16: a user-function call with matching arity never fails on a borrow of
\* an Environment, whatever its arguments are (Identifiers, additive
\* expressions over Identifiers, nested calls).
C16_NoBorrowFailure ==
    [][IsUserCall(last') => panic' # BorrowPanic]_vars

\* C17: a CallExpression changes the binding list of no Environment but the
\* child scope it creates: every binding it adds or replaces is added or
\* replaced in the innermost scope alive, every other Environment is left as
\* it was, and after the call the caller's Environment is as before.
C17_CallLeavesCallerBindings ==
    [][IsCall(last') =>
          /\ envs'[Root] = envs[Root]
          /\ \A i \in 1..Len(ops') :
                 /\ ops'[i].env = Len(ops'[i].before)
                 /\ ops'[i].env # Root
                 /\ \A e \in 1..Len(ops'[i].before) :
                        e # ops'[i].env => ops'[i].after[e] = ops'[i].before[e]
      ]_vars

\* the call k() has declared y in its scope and then made the nested call
\* f(), whose body declared a variable in a scope of its own while the scope
\* of k held its binding
C17_Witness ==
    /\ last = ExpressionStatement(Call("k", <<>>))
    /\ panic = ""
    /\ \E i \in 1..Len(ops) :
           /\ ops[i].op = "add" /\ ops[i].env = Root + 1 /\ ops[i].name = "y"
           /\ \E j \in (i + 1)..Len(ops) :
                  /\ ops[j].op = "add" /\ ops[j].env = Root + 2
                  /\ Bound(ops[j].before, Root + 1, "y")
    /\ Len(envs) = 1

(***************************************************************************)
(* SpecDom: programs that reach the DOM through document.getElementById    *)
(* and textContent, run against a document whose element #target has two   *)
(* children or none.                                                       *)
(***************************************************************************)
\* Document > p#target > ("old", a#link)
DomWithChildren ==
    << [Node_new(Document) EXCEPT !.first_child = 2, !.last_child = 2],
       [Node_new(Element("p", <<Attribute("id", "target")>>))
            EXCEPT !.parent = 1, !.first_child = 3, !.last_child = 4],
       [Node_new(Text("old")) EXCEPT !.parent = 2, !.next_sibling = 4],
       [Node_new(Element("a", <<Attribute("id", "link")>>))
            EXCEPT !.parent = 2, !.previuos_sibling = 3] >>

\* Document > p#target
DomLeaf ==
    << [Node_new(Document) EXCEPT !.first_child = 2, !.last_child = 2],
       [Node_new(Element("p", <<Attribute("id", "target")>>)) EXCEPT !.parent = 1] >>

\* document.getElementById
DocumentGetElementById ==
    MemberExpression(Identifier("document"), Identifier("getElementById"))

GetElementById(id) == CallExpression(DocumentGetElementById, <<StringLiteralNode(id)>>)

\* a user function registered under the name "document.getElementById"
FunctionGetElementById ==
    FunctionDeclaration(DocumentGetElementById, <<Identifier("id")>>,
        BlockStatement(<<ReturnStatement(NumericLiteral(U64(7)))>>))

TextContentOf(object) == MemberExpression(object, Identifier("textContent"))

DomStatements ==
    { Var("t", GetElementById("target")),
      Var("l", GetElementById("link")),
      Var("p", TextContentOf(Identifier("t"))),
      Assign(TextContentOf(Identifier("t")), StringLiteralNode("foobar")),
      Assign(TextContentOf(GetElementById("target")), NumericLiteral(U64(42))),
      Assign(TextContentOf(Identifier("l")), Identifier("t")),
      Assign(MemberExpression(Identifier("t"), Identifier("innerText")),
             StringLiteralNode("foobar")),
      Assign(Identifier("p"), StringLiteralNode("q")),
      ExpressionStatement(Identifier("p")),
      FunctionGetElementById,
      ExpressionStatement(GetElementById("target")),
      ExpressionStatement(GetElementById("nowhere")),
      ExpressionStatement(CallExpression(DocumentGetElementById, <<>>)),
      ExpressionStatement(CallExpression(DocumentGetElementById,
                                         <<Identifier("t"), NumericLiteral(U64(1))>>)),
      ExpressionStatement(TextContentOf(Identifier("t"))),
      ExpressionStatement(MemberExpression(TextContentOf(Identifier("t")),
                                           Identifier("length"))),
      ExpressionStatement(MemberExpression(NumericLiteral(U64(1)),
                                           Identifier("length"))) }

InitDom == /\ overflowChecks \in BOOLEAN
           /\ input = <<>>
           /\ pos = 0
           /\ token = NotCalled
           /\ lexPanic = ""
           /\ \E dom \in {DomWithChildren, DomLeaf} : NewRuntime(dom)
           /\ NoComparison

NextDom == \E stmt \in DomStatements : Execute(stmt)

SpecDom == InitDom /\ [][NextDom]_vars

Live(ns) == {n \in 1..Len(ns) : ns[n] # Dropped}

RECURSIVE LastSibling(_, _)
\* the node at which the walk along next_sibling from n ends
LastSibling(ns, n) ==
    IF ns[n].next_sibling = 0 THEN n ELSE LastSibling(ns, ns[n].next_sibling)

\* C3: for every node whose first_child is set, the first child's parent link
\* resolves to that node, and following next_sibling from first_child ends at
\* the node last_child resolves to.
C3_TreeInvariant ==
    \A n \in Live(nodes) :
        nodes[n].first_child # 0 =>
            /\ Upgrade(nodes, nodes[nodes[n].first_child].parent) = n
            /\ LastSibling(nodes, nodes[n].first_child)
                   = Upgrade(nodes, nodes[n].last_child)

IsAssignment(stmt) ==
    /\ stmt # None
    /\ stmt.k = "ExpressionStatement"
    /\ stmt.expr.k = "AssignmentExpression"
    /\ stmt.expr.operator = "="

RECURSIVE Siblings(_, _)
\* n and the nodes after it along next_sibling
Siblings(ns, n) == IF n = 0 THEN {} ELSE {n} \cup Siblings(ns, ns[n].next_sibling)

\* what an assignment with the given left side must have done to the DOM when
\* the left side evaluates to an HtmlElement with pending property textContent
\* and the right side to a value: target's first child is a Text node holding
\* the display-string of the value, it has no next sibling, and none of the
\* children target had is reachable from target any more
TextContentAssigned(stmt) ==
    LET l == eval(stmt.expr.left, Root, {}, EvalState(envs, functions, nodes))
        r == eval(stmt.expr.right, Root, {}, l.st)
    IN  (/\ r.st.panic = ""
         /\ l.v.t = "HtmlElement"
         /\ l.v.property = Some("textContent")
         /\ r.v # None) =>
            LET target == l.v.object
                child == nodes'[target].first_child
            IN  /\ panic' = ""
                /\ child # 0
                /\ nodes'[child].kind = Text(to_string(r.st.nodes, r.v))
                /\ nodes'[child].next_sibling = 0
                /\ Siblings(r.st.nodes, r.st.nodes[target].first_child)
                       \cap Owned(nodes', {child}, {}) = {}

\* C4 as claimed: for every '=' assignment whose left side evaluates to an
\* HtmlElement with pending property textContent.
C4_TextContentReplacesChildren_Original ==
    [][IsAssignment(last') => TextContentAssigned(last')]_vars

\* C4, amended: the same, for every '=' assignment whose left side is not a
\* bare Identifier (an Identifier on the left is a variable assignment).
C4_TextContentReplacesChildren ==
    [][(IsAssignment(last') /\ last'.expr.left.k # "Identifier")
           => TextContentAssigned(last')]_vars

\* t.textContent = "foobar" has replaced the two children of #target
C4_Witness ==
    /\ last = Assign(TextContentOf(Identifier("t")), StringLiteralNode("foobar"))
    /\ panic = ""
    /\ nodes[2].first_child = 5
    /\ nodes[5].kind = Text("foobar")
    /\ nodes[3] = Dropped

(***************************************************************************)
(* The browser-API bridge and member access, checked under SpecDom.        *)
(***************************************************************************)
\* the value the first argument of a top-level call evaluates to in the child
\* scope the call creates; None when the argument list is empty
FirstArgumentValue(call) ==
    LET scope == Environment_new(envs, Root)
    IN  IF Len(call.arguments) = 0 THEN None
        ELSE eval(call.arguments[1], Len(scope), {}, EvalState(scope, functions, nodes)).v

\* C11: a call whose callee evaluates to exactly "document.getElementById" is
\* answered by the browser-API bridge whatever the function table holds and
\* whatever argument list it is given: it never aborts, and it returns the
\* HtmlElement with no pending property wrapping the node found, or nothing
\* when no element carries the id or the argument evaluates to no value.
C11_BrowserApiAnswers ==
    [][(/\ IsCall(last')
        /\ CalleeValue(last'.expr) = StringLiteral("document.getElementById")) =>
          LET arg == FirstArgumentValue(last'.expr)
              target == IF arg = None THEN 0
                        ELSE get_element_by_id(nodes, 1, to_string(nodes, arg))
          IN  /\ panic' = ""
              /\ returned' = IF target = 0 THEN None ELSE HtmlElement(target, None)
      ]_vars

IsMemberStatement(stmt) ==
    /\ stmt # None
    /\ stmt.k = "ExpressionStatement"
    /\ stmt.expr.k = "MemberExpression"

\* C13: a MemberExpression whose object and property both evaluate to values
\* never aborts; on an HtmlElement with no pending property it yields that
\* HtmlElement carrying the property's display-string, and in every other
\* case (an HtmlElement that already carries a pending property included) the
\* StringLiteral object-string + "." + property-string.
C13_MemberNeverAborts ==
    [][IsMemberStatement(last') =>
          LET o == eval(last'.expr.object, Root, {}, EvalState(envs, functions, nodes))
              p == eval(last'.expr.property, Root, {}, o.st)
          IN  (/\ o.st.panic = "" /\ o.v # None
               /\ p.st.panic = "" /\ p.v # None) =>
                  /\ panic' = ""
                  /\ returned' =
                         IF o.v.t = "HtmlElement" /\ o.v.property = None
                         THEN HtmlElement(o.v.object, Some(to_string(p.st.nodes, p.v)))
                         ELSE StringLiteral(to_string(p.st.nodes, o.v) \o "."
                                                \o to_string(p.st.nodes, p.v))
      ]_vars

(***************************************************************************)
(* SpecEq: two Elements are built and compared, directly as Elements and   *)
(* as the kinds of two Nodes.                                              *)
(***************************************************************************)
MaxAttributes == 2

AttributeValues == {Attribute("id", "a"), Attribute("id", "b")}

\* Element::new for every kind and every attribute list of the bound
Elements ==
    {Element(kind, attributes) :
        kind \in ElementKinds, attributes \in SeqsUpTo(AttributeValues, MaxAttributes)}

InitEq == /\ overflowChecks \in BOOLEAN
          /\ input = <<>>
          /\ pos = 0
          /\ token = NotCalled
          /\ lexPanic = ""
          /\ NewRuntime(DocumentOnly)
          /\ lhsElement \in Elements
          /\ rhsElement \in Elements
          /\ equal = None

\* lhsElement == rhsElement as Elements, as NodeKinds and as the Nodes made of them
Compare ==
    /\ equal = None
    /\ equal' = [elements |-> Element_eq(lhsElement, rhsElement),
                 kinds |-> NodeKind_eq(lhsElement, rhsElement),
                 nodes |-> Node_eq(Node_new(lhsElement), Node_new(rhsElement))]
    /\ UNCHANGED <<lhsElement, rhsElement>>
    /\ UNCHANGED <<overflowChecks, input, pos, token, lexPanic>>
    /\ UNCHANGED rtVars

SpecEq == InitEq /\ [][Compare]_vars

\* C12: two Elements compare equal exactly when they are of the same kind,
\* whatever their attribute lists, both compared directly as Elements and
\* compared as the kinds of two Nodes.
C12_ElementEqualityByKind ==
    equal # None =>
        /\ equal.elements = (lhsElement.kind = rhsElement.kind)
        /\ equal.kinds = (lhsElement.kind = rhsElement.kind)
        /\ equal.nodes = (lhsElement.kind = rhsElement.kind)

====
